---- MODULE Spec2Model ----
(***************************************************************************)
(* Model of the cat-video ingestion endpoint of src/app.js                 *)
(* (POST /upload-cat-video and GET /cat-videos, lines 48-349).             *)
(*                                                                         *)
(* A request handler is an async function: it runs atomically between two  *)
(* await points, so each action below is one synchronous block of the      *)
(* handler, entered when the awaited subprocess (yt-dlp, ffmpeg, ffprobe)  *)
(* or the awaited unlinks complete.  The effects of the subprocess on the  *)
(* videos directory are applied in the block that observes its completion. *)
(***************************************************************************)
EXTENDS Integers, Sequences, FiniteSets

\* ---------------------------------------------------------------- bounds
NumReqs == 2        \* requests that may be in flight together
MaxClock == 1       \* Date.now() ranges over 0..MaxClock
MaxRand == 1        \* Math.round(Math.random() * 1E9) ranges over 0..MaxRand

Reqs == 1..NumReqs

VARIABLES
    clock,               \* the value Date.now() returns
    catsExists,          \* fs.existsSync(CATS_FILE)
    cats,                \* the record list persisted in cats.json
    files,               \* names of the files in VIDEOS_DIR
    partial,             \* names in VIDEOS_DIR left half-written by a failed ffmpeg
    pc,                  \* per request: position of its handler
    req,                 \* per request: req.file and req.body.youtubeUrl
    posts,               \* per request: const posts (line 171)
    tempName,            \* per request: const tempName (line 187)
    mainFile,            \* per request: mainFile (line 217) / originalFilename (line 251)
    tempFilesToCleanup,  \* per request: let tempFilesToCleanup (lines 178, 220)
    finalFilename,       \* per request: let finalFilename (lines 224, 257)
    metadata,            \* per request: metadata.format.tags?.title (lines 246, 252, 279)
    response,            \* per request: the status sent with res.status(..).json(..)
    err,                 \* history: the step of the pipeline that failed for the request
    made,                \* history: names of the files the request's run wrote
    calls,               \* history: subprocesses the request's run invoked
    listed,              \* the last answer of GET /cat-videos
    aborted,             \* requests whose client closed the connection
    blogExists,          \* fs.existsSync(BLOG_FILE)
    blog,                \* the record list persisted in blog.json
    served,              \* history: the blog POSTs in the order their handlers ran
    trial                \* one application of a pure function: its inputs and result

vars == <<clock, catsExists, cats, files, partial, pc, req, posts, tempName,
          mainFile, tempFilesToCleanup, finalFilename, metadata, response,
          err, made, calls, listed, aborted, blogExists, blog, served, trial>>

\* What the handlers of POST /upload-cat-video never touch.
aside == <<listed, aborted, blogExists, blog, served, trial>>

\* No pure function is being applied.
NoTrial == [fn |-> "none"]

\* GET /cat-videos has not answered yet.
NotListed == [answered |-> FALSE, body |-> <<>>]

\* ------------------------------------------------------------ file names
\* A file name is kept as the parts the code concatenates:
\*   `yt_temp_${Date.now()}` + what yt-dlp appends      (line 187)
\*   `yt_${Date.now()}_h264.mp4`                          (line 224)
\*   'catvideo-' + Date.now() + '-' + random + ext        (lines 138-140)
\*   `${baseName}_h264.mp4`                               (line 257)
FileName(k, ts, rnd, ext) == [k |-> k, ts |-> ts, rnd |-> rnd, ext |-> ext]

NoName == FileName("", 0, 0, "")

\* Number.prototype.toString: the decimal digits of n.
RECURSIVE toString(_)
toString(n) == IF n < 10 THEN <<n>> ELSE Append(toString(n \div 10), n % 10)

IsPrefix(s, t) == Len(s) <= Len(t) /\ SubSeq(t, 1, Len(s)) = s

\* f.startsWith(tempName), line 212: the name goes on with the prefix's
\* digits; what follows them (more digits, an extension) is free.
StartsWith(f, prefix) ==
    /\ f.k = prefix.k
    /\ IsPrefix(toString(prefix.ts), toString(f.ts))

\* ['.mp4', '.mkv', '.mov'].some(ext => f.endsWith(ext)), line 217
EndsWithVideoExt(f) == f.ext \in {".mp4", ".mkv", ".mov", "_h264.mp4"}

\* `yt_temp_${Date.now()}`, line 187
TempNameAt(now) == FileName("yt_temp_", now, 0, "")

\* `yt_${Date.now()}_h264.mp4`, line 224
YtFinalFilename(now) == FileName("yt_", now, 0, "_h264.mp4")

\* VideoStorage.filename, lines 137-141
UploadFilename(now, rnd, ext) == FileName("catvideo-", now, rnd, ext)

\* baseName + '_h264.mp4', lines 254-257: the name up to its last '.'
\* (the whole name when it has no '.') followed by the fixed suffix.
UploadFinalFilename(orig) == FileName(orig.k, orig.ts, orig.rnd, "_h264.mp4")

\* ---------------------------------------------------------- input domains
\* path.extname(file.originalname) of an upload, line 139
UploadExts == {".mp4", ".mov"}

\* What one yt-dlp run leaves under the temp prefix: nothing, one muxed
\* file, or unmuxed streams.
DownloadOutcomes == {{}, {".mp4"}, {".webm", ".m4a"}}

\* req.body.customTitle and the probed format tag title ("" is falsy)
CustomTitles == {"", "A"}
TagTitles == {"", "B"}

\* The request shapes: req.file (after multer) and req.body.youtubeUrl.
\* "shorts" is a URL that includes 'youtube.com/shorts/' or 'youtu.be/'.
RequestShapes ==
    {[file |-> f, youtubeUrl |-> u] : f \in {"none", "video", "other"},
                                      u \in {"", "shorts", "elsewhere"}}

NoRequest == [file |-> "none", youtubeUrl |-> ""]

TypeOK ==
    /\ clock \in 0..MaxClock
    /\ catsExists \in BOOLEAN
    /\ files \subseteq [k : STRING, ts : Nat, rnd : Nat, ext : STRING]
    /\ partial \subseteq files
    /\ pc \in [Reqs -> {"idle", "handler", "ytdl", "ffprobe1", "ffmpeg", "ffprobe2",
                        "cleaning", "commit", "done", "rejected", "hung"}]
    /\ response \in [Reqs -> {"none", "201", "400", "500", "500-express"}]

InitRoute ==
    /\ clock = 0
    /\ catsExists \in BOOLEAN
    /\ cats = <<>>
    /\ files = {}
    /\ partial = {}
    /\ pc = [r \in Reqs |-> "idle"]
    /\ req = [r \in Reqs |-> NoRequest]
    /\ posts = [r \in Reqs |-> <<>>]
    /\ tempName = [r \in Reqs |-> NoName]
    /\ mainFile = [r \in Reqs |-> NoName]
    /\ tempFilesToCleanup = [r \in Reqs |-> {}]
    /\ finalFilename = [r \in Reqs |-> NoName]
    /\ metadata = [r \in Reqs |-> ""]
    /\ response = [r \in Reqs |-> "none"]
    /\ err = [r \in Reqs |-> "none"]
    /\ made = [r \in Reqs |-> {}]
    /\ calls = [r \in Reqs |-> [ytdl |-> 0, ffmpeg |-> 0, ffprobe |-> 0]]
    /\ listed = NotListed
    /\ aborted = {}
    /\ blog = <<>>
    /\ served = <<>>

Init == InitRoute /\ blogExists = FALSE /\ trial = NoTrial

\* Date.now() is wall-clock time with millisecond resolution and is not
\* monotonic: any number of reads, in any handlers, may return one value.
Tick ==
    /\ clock < MaxClock
    /\ clock' = clock + 1
    /\ UNCHANGED <<aside, catsExists, cats, files, partial, pc, req, posts, tempName,
                   mainFile, tempFilesToCleanup, finalFilename, metadata,
                   response, err, made, calls>>


\* ------------------------------------------------------- handler helpers
\* fs.readdirSync(...).filter(f => f.startsWith(tempName)), lines 211-212:
\* the directory listing comes in an order the file system chooses.
Listings(S) ==
    {l \in [1..Cardinality(S) -> S] : \A i, j \in 1..Cardinality(S) : l[i] = l[j] => i = j}

\* downloadedFiles.find(video extension) || downloadedFiles[0], line 217
MainFileOf(downloadedFiles) ==
    IF \E i \in 1..Len(downloadedFiles) : EndsWithVideoExt(downloadedFiles[i])
    THEN downloadedFiles[CHOOSE i \in 1..Len(downloadedFiles) :
                            /\ EndsWithVideoExt(downloadedFiles[i])
                            /\ \A j \in 1..(i - 1) : ~EndsWithVideoExt(downloadedFiles[j])]
    ELSE downloadedFiles[1]

\* downloadedFiles.filter(f => f !== mainFile), lines 220-222
TempFilesOf(downloadedFiles, main) ==
    {downloadedFiles[i] : i \in 1..Len(downloadedFiles)} \ {main}

\* The both-or-neither test of line 173.
BothOrNeither(q) ==
    \/ q.file = "none" /\ q.youtubeUrl = ""
    \/ q.file # "none" /\ q.youtubeUrl # ""

\* The URL test of line 183.
IsShortsUrl(u) == u = "shorts"

\* A display name is text followed by a number or a file name.
Title(text, ts, f) == [text |-> text, ts |-> ts, file |-> f]

\* finalFilename.replace(/\.[^/.]+$/, ''), line 292: the name without its
\* last extension.
StripExt(f) == FileName(f.k, f.ts, f.rnd, IF f.ext = "_h264.mp4" THEN "_h264" ELSE "")

\* A title choice that asks the probed tag before the caller's title.
autoTitleTagFirst(customTitle, tagTitle, youtubeUrl, now, final) ==
    IF tagTitle # "" THEN Title(tagTitle, 0, NoName)
    ELSE IF customTitle # "" THEN Title(customTitle, 0, NoName)
    ELSE IF youtubeUrl # "" THEN Title("YouTube Short ", now, NoName)
    ELSE Title("", 0, StripExt(final))

\* autoTitle, lines 289-292
autoTitle(customTitle, tagTitle, youtubeUrl, now, final) ==
    IF customTitle # "" THEN Title(customTitle, 0, NoName)
    ELSE IF tagTitle # "" THEN Title(tagTitle, 0, NoName)
    ELSE IF youtubeUrl # "" THEN Title("YouTube Short ", now, NoName)
    ELSE Title("", 0, StripExt(final))

\* A record whose url is built without the '_h264' suffix of the final name.
NewPostWrongUrl(r, customTitle, tagTitle, youtubeUrl, now, final) ==
    [id |-> toString(now),
     name |-> autoTitle(customTitle, tagTitle, youtubeUrl, now, final),
     url |-> FileName(final.k, final.ts, final.rnd, ".mp4"),
     createdAt |-> now,
     source |-> IF youtubeUrl # "" THEN "youtube" ELSE "upload",
     by |-> r]

\* newPost, lines 294-300.  by is not a field of the record: it names the
\* request that built it.
NewPost(r, customTitle, tagTitle, youtubeUrl, now, final) ==
    [id |-> toString(now),
     name |-> autoTitle(customTitle, tagTitle, youtubeUrl, now, final),
     url |-> final,
     createdAt |-> now,
     source |-> IF youtubeUrl # "" THEN "youtube" ELSE "upload",
     by |-> r]

\* A push that puts the new record first (unshift).
PushFront(ps, newPost) == <<newPost>> \o ps

\* posts.push(newPost), line 302
Push(ps, newPost) == Append(ps, newPost)

\* The file the 'end' listener unlinks, lines 240 and 273.
UnlinkAfterTranscode(source, final) == source

\* What fs.unlinkSync / unlinkAsync of the names in gone leaves in the directory.
Unlink(dir, gone) == dir \ gone

\* The handler's locals die with the handler.
DropLocals(r) ==
    /\ posts' = [posts EXCEPT ![r] = <<>>]
    /\ tempName' = [tempName EXCEPT ![r] = NoName]
    /\ mainFile' = [mainFile EXCEPT ![r] = NoName]
    /\ tempFilesToCleanup' = [tempFilesToCleanup EXCEPT ![r] = {}]
    /\ finalFilename' = [finalFilename EXCEPT ![r] = NoName]
    /\ metadata' = [metadata EXCEPT ![r] = ""]

\* res.status(status).json(..) as the handler's last statement.
Respond(r, status) ==
    /\ pc' = [pc EXCEPT ![r] = "done"]
    /\ response' = [response EXCEPT ![r] = status]
    /\ DropLocals(r)

\* The catch block, lines 306-323, entered with the error of step.
\* tempFilesToCleanup is declared with let inside the try block (line 178),
\* so it is not in scope at line 310: evaluating it throws a ReferenceError
\* before any unlink and before res.status(500).  The async handler's
\* promise rejects and the handler sends no response: pc is "rejected".
Catch(r, step) ==
    /\ pc' = [pc EXCEPT ![r] = "rejected"]
    /\ err' = [err EXCEPT ![r] = step]
    /\ UNCHANGED response
    /\ DropLocals(r)

\* Requests are numbered in the order they arrive.
Arrives(r) == pc[r] = "idle" /\ \A q \in Reqs : q < r => pc[q] # "idle"

Called(r, what) == calls' = [calls EXCEPT ![r][what] = @ + 1]

Wrote(r, names) == made' = [made EXCEPT ![r] = @ \cup names]

\* ------------------------------------------------------------- the route
\* videoUpload.single('video'), lines 148-165: the fileFilter refuses a
\* part whose mimetype is not allowed; the error goes to the framework's
\* error handler and the route handler is not called.
MulterRefuses(r) ==
    /\ Arrives(r)
    /\ \E q \in RequestShapes :
        /\ q.file = "other"
        /\ req' = [req EXCEPT ![r] = q]
    /\ Respond(r, "500-express")
    /\ UNCHANGED <<aside, clock, catsExists, cats, files, partial, err, made, calls>>

\* VideoStorage, lines 133-142: an accepted part is written to VIDEOS_DIR
\* under the generated name before the route handler is called.
MulterStores(r) ==
    /\ Arrives(r)
    /\ \E q \in RequestShapes, rnd \in 0..MaxRand, ext \in UploadExts :
        LET name == UploadFilename(clock, rnd, ext) IN
        /\ q.file = "video"
        /\ req' = [req EXCEPT ![r] = q]
        /\ files' = files \cup {name}
        /\ partial' = partial \ {name}
        /\ mainFile' = [mainFile EXCEPT ![r] = name]
        /\ Wrote(r, {name})
    /\ pc' = [pc EXCEPT ![r] = "handler"]
    /\ UNCHANGED <<aside, clock, catsExists, cats, posts, tempName, tempFilesToCleanup,
                   finalFilename, metadata, response, err, calls>>

\* A request without a file part reaches the handler with req.file undefined.
MulterPasses(r) ==
    /\ Arrives(r)
    /\ \E q \in RequestShapes :
        /\ q.file = "none"
        /\ req' = [req EXCEPT ![r] = q]
    /\ pc' = [pc EXCEPT ![r] = "handler"]
    /\ UNCHANGED <<aside, clock, catsExists, cats, files, partial, posts, tempName,
                   mainFile,
                   tempFilesToCleanup, finalFilename, metadata, response, err,
                   made, calls>>

\* Lines 170-175: ensureCatsFileExists, the read of cats.json, and the
\* both-or-neither answer.
HandlerBothOrNeither(r) ==
    /\ pc[r] = "handler"
    /\ BothOrNeither(req[r])
    /\ catsExists' = TRUE
    /\ Respond(r, "400")
    /\ UNCHANGED <<aside, clock, cats, files, partial, req, err, made, calls>>

\* Lines 170-185: a remote URL that is not a Shorts URL.
HandlerBadUrl(r) ==
    /\ pc[r] = "handler"
    /\ ~BothOrNeither(req[r])
    /\ req[r].youtubeUrl # ""
    /\ ~IsShortsUrl(req[r].youtubeUrl)
    /\ catsExists' = TRUE
    /\ Respond(r, "400")
    /\ UNCHANGED <<aside, clock, cats, files, partial, req, err, made, calls>>

\* Lines 170-194: fs.existsSync(cookiesPath) is false and the handler
\* throws.  cookies.txt is not a file of the model: it is there or not.
HandlerNoCookies(r) ==
    /\ pc[r] = "handler"
    /\ ~BothOrNeither(req[r])
    /\ IsShortsUrl(req[r].youtubeUrl)
    /\ catsExists' = TRUE
    /\ Catch(r, "cookies")
    /\ UNCHANGED <<aside, clock, cats, files, partial, req, made, calls>>

\* Lines 170-208: the remote path, cookies.txt present, up to await ytdl(...).
HandlerRemote(r) ==
    /\ pc[r] = "handler"
    /\ ~BothOrNeither(req[r])
    /\ IsShortsUrl(req[r].youtubeUrl)
    /\ catsExists' = TRUE
    /\ posts' = [posts EXCEPT ![r] = cats]
    /\ tempName' = [tempName EXCEPT ![r] = TempNameAt(clock)]
    /\ Called(r, "ytdl")
    /\ pc' = [pc EXCEPT ![r] = "ytdl"]
    /\ UNCHANGED <<aside, clock, cats, files, partial, req, mainFile, tempFilesToCleanup,
                   finalFilename, metadata, response, err, made>>

\* Lines 170-178 and 250-252: the upload path up to await ffprobe(originalPath).
HandlerUpload(r) ==
    /\ pc[r] = "handler"
    /\ ~BothOrNeither(req[r])
    /\ req[r].youtubeUrl = ""
    /\ catsExists' = TRUE
    /\ posts' = [posts EXCEPT ![r] = cats]
    /\ Called(r, "ffprobe")
    /\ pc' = [pc EXCEPT ![r] = "ffprobe1"]
    /\ UNCHANGED <<aside, clock, cats, files, partial, req, tempName, mainFile,
                   tempFilesToCleanup, finalFilename, metadata, response, err, made>>

\* Line 197: the downloader fails and the awaited promise rejects.
YtdlFails(r) ==
    /\ pc[r] = "ytdl"
    /\ Catch(r, "download")
    /\ UNCHANGED <<aside, clock, catsExists, cats, files, partial, req, made, calls>>

\* Lines 197-215: the downloader ends and no file carries the prefix.
YtdlNoFile(r) ==
    /\ pc[r] = "ytdl"
    /\ {f \in files : StartsWith(f, tempName[r])} = {}
    /\ Catch(r, "download")
    /\ UNCHANGED <<aside, clock, catsExists, cats, files, partial, req, made, calls>>

\* Lines 197-243: the downloader ends having written its files; the files
\* of the directory that carry the prefix are listed, whoever wrote them,
\* the main file is selected, the final name generated and ffmpeg started.
YtdlDone(r) ==
    /\ pc[r] = "ytdl"
    /\ \E exts \in DownloadOutcomes :
        LET written == {FileName(tempName[r].k, tempName[r].ts, 0, e) : e \in exts}
            dir == files \cup written
        IN  \E downloadedFiles \in Listings({f \in dir : StartsWith(f, tempName[r])}) :
                /\ Len(downloadedFiles) # 0
                /\ files' = dir
                /\ partial' = partial \ written
                /\ Wrote(r, written)
                /\ mainFile' = [mainFile EXCEPT ![r] = MainFileOf(downloadedFiles)]
                /\ tempFilesToCleanup' = [tempFilesToCleanup EXCEPT ![r] =
                        TempFilesOf(downloadedFiles, MainFileOf(downloadedFiles))]
    /\ finalFilename' = [finalFilename EXCEPT ![r] = YtFinalFilename(clock)]
    /\ Called(r, "ffmpeg")
    /\ pc' = [pc EXCEPT ![r] = "ffmpeg"]
    /\ UNCHANGED <<aside, clock, catsExists, cats, req, posts, tempName, metadata,
                   response, err>>

\* Line 252 rejects: ffprobe of the uploaded file fails.
FfprobeUploadFails(r) ==
    /\ pc[r] = "ffprobe1"
    /\ Catch(r, "probe")
    /\ UNCHANGED <<aside, clock, catsExists, cats, files, partial, req, made, calls>>

\* Lines 252-276: ffprobe read the uploaded file; the final name is derived
\* from the upload's name and ffmpeg started.
\* An upload that is published as it is, without a transcode.
FfprobeUploadPassthrough(r) ==
    /\ pc[r] = "ffprobe1"
    /\ mainFile[r] \in files
    /\ finalFilename' = [finalFilename EXCEPT ![r] = mainFile[r]]
    /\ \E tagTitle \in TagTitles : metadata' = [metadata EXCEPT ![r] = tagTitle]
    /\ pc' = [pc EXCEPT ![r] = "cleaning"]
    /\ UNCHANGED <<aside, clock, catsExists, cats, files, partial, req, posts, tempName,
                   mainFile, tempFilesToCleanup, response, err, made, calls>>

FfprobeUploadDone(r) ==
    /\ pc[r] = "ffprobe1"
    /\ mainFile[r] \in files
    /\ finalFilename' = [finalFilename EXCEPT ![r] = UploadFinalFilename(mainFile[r])]
    /\ Called(r, "ffmpeg")
    /\ pc' = [pc EXCEPT ![r] = "ffmpeg"]
    /\ UNCHANGED <<aside, clock, catsExists, cats, files, partial, req, posts, tempName,
                   mainFile,
                   tempFilesToCleanup, metadata, response, err, made>>

\* .on('error', reject), lines 237 and 270: ffmpeg fails; what it wrote of
\* the destination, if anything, stays in the directory.
FfmpegError(r) ==
    /\ pc[r] = "ffmpeg"
    /\ \E left \in BOOLEAN :
        /\ files' = IF left THEN files \cup {finalFilename[r]} ELSE files
        /\ partial' = IF left THEN partial \cup {finalFilename[r]} ELSE partial
        /\ made' = [made EXCEPT ![r] = IF left THEN @ \cup {finalFilename[r]} ELSE @]
    /\ Catch(r, "transcode")
    /\ UNCHANGED <<aside, clock, catsExists, cats, req, calls>>

\* .on('end', ..), lines 238-246 and 271-279: ffmpeg wrote the destination;
\* the listener unlinks the source and resolves, and the handler goes on to
\* await ffprobe(finalPath).  While pc is "ffmpeg" the destination is being
\* written; it is entered in files when the transcoder reports.
FfmpegEnd(r) ==
    /\ pc[r] = "ffmpeg"
    /\ UnlinkAfterTranscode(mainFile[r], finalFilename[r]) \in files \cup {finalFilename[r]}
    /\ files' = Unlink(files \cup {finalFilename[r]},
                       {UnlinkAfterTranscode(mainFile[r], finalFilename[r])})
    /\ partial' = partial \ {finalFilename[r], UnlinkAfterTranscode(mainFile[r], finalFilename[r])}
    /\ Wrote(r, {finalFilename[r]})
    /\ Called(r, "ffprobe")
    /\ pc' = [pc EXCEPT ![r] = "ffprobe2"]
    /\ UNCHANGED <<aside, clock, catsExists, cats, req, posts, tempName, mainFile,
                   tempFilesToCleanup, finalFilename, metadata, response, err>>

\* Lines 238-241 and 271-274 when the source is no longer there:
\* fs.unlinkSync throws inside the 'end' listener, resolve() is not reached
\* and reject is not called, so the awaited promise never settles.
FfmpegEndUnlinkThrows(r) ==
    /\ pc[r] = "ffmpeg"
    /\ UnlinkAfterTranscode(mainFile[r], finalFilename[r]) \notin files \cup {finalFilename[r]}
    /\ files' = files \cup {finalFilename[r]}
    /\ partial' = partial \ {finalFilename[r]}
    /\ Wrote(r, {finalFilename[r]})
    /\ pc' = [pc EXCEPT ![r] = "hung"]
    /\ err' = [err EXCEPT ![r] = "unlink"]
    /\ DropLocals(r)
    /\ UNCHANGED <<aside, clock, catsExists, cats, req, response, calls>>

\* A handler that logs the failed probe and goes on with empty metadata.
FfprobeFinalSwallowed(r) ==
    /\ pc[r] = "ffprobe2"
    /\ err' = [err EXCEPT ![r] = "probe"]
    /\ metadata' = [metadata EXCEPT ![r] = ""]
    /\ pc' = [pc EXCEPT ![r] = "cleaning"]
    /\ UNCHANGED <<aside, clock, catsExists, cats, files, partial, req, posts, tempName,
                   mainFile,
                   tempFilesToCleanup, finalFilename, response, made, calls>>

\* Lines 246 and 279 reject: ffprobe of the transcoded file fails.
FfprobeFinalFails(r) ==
    /\ pc[r] = "ffprobe2"
    /\ Catch(r, "probe")
    /\ UNCHANGED <<aside, clock, catsExists, cats, files, partial, req, made, calls>>

\* Lines 246/279 and 283-286: ffprobe read the transcoded file; the
\* unlinks of the temp files are started and awaited.
FfprobeFinalDone(r) ==
    /\ pc[r] = "ffprobe2"
    /\ finalFilename[r] \in files
    /\ \E tagTitle \in TagTitles : metadata' = [metadata EXCEPT ![r] = tagTitle]
    /\ pc' = [pc EXCEPT ![r] = "cleaning"]
    /\ UNCHANGED <<aside, clock, catsExists, cats, files, partial, req, posts, tempName,
                   mainFile,
                   tempFilesToCleanup, finalFilename, response, err, made, calls>>

\* Lines 283-286: every unlinkAsync settles; a failed one is logged and
\* leaves its file where it is.
\* A cleanup whose Promise.all rejects when an unlink fails.
CleanupRejects(r) ==
    /\ pc[r] = "cleaning"
    /\ \E failed \in SUBSET tempFilesToCleanup[r] :
        /\ files' = Unlink(files, tempFilesToCleanup[r] \ failed)
        /\ partial' = Unlink(partial, tempFilesToCleanup[r] \ failed)
        /\ IF failed = {}
           THEN /\ pc' = [pc EXCEPT ![r] = "commit"]
                /\ UNCHANGED <<posts, tempName, mainFile, tempFilesToCleanup,
                               finalFilename, metadata, response, err>>
           ELSE Catch(r, "cleanup")
    /\ UNCHANGED <<aside, clock, catsExists, cats, req, made, calls>>

Cleanup(r) ==
    /\ pc[r] = "cleaning"
    /\ \E failed \in SUBSET tempFilesToCleanup[r] :
        /\ files' = Unlink(files, tempFilesToCleanup[r] \ failed)
        /\ partial' = Unlink(partial, tempFilesToCleanup[r] \ failed)
    /\ pc' = [pc EXCEPT ![r] = "commit"]
    /\ UNCHANGED <<aside, clock, catsExists, cats, req, posts, tempName, mainFile,
                   tempFilesToCleanup, finalFilename, metadata, response, err, made, calls>>

\* Lines 288-304: the record is built, pushed onto the list read at line
\* 171, the list written to cats.json and 201 sent.
Commit(r) ==
    /\ pc[r] = "commit"
    /\ \E customTitle \in CustomTitles :
        cats' = Push(posts[r], NewPost(r, customTitle, metadata[r], req[r].youtubeUrl,
                                       clock, finalFilename[r]))
    /\ catsExists' = TRUE
    /\ Respond(r, "201")
    /\ UNCHANGED <<aside, clock, files, partial, req, err, made, calls>>

\* GET /cat-videos, lines 326-330.
GetCatVideos ==
    /\ catsExists' = TRUE
    /\ listed' = [answered |-> TRUE, body |-> cats]
    /\ UNCHANGED <<aborted, blogExists, blog, served, trial, clock, cats, files,
                   partial, pc, req, posts, tempName, mainFile, tempFilesToCleanup,
                   finalFilename, metadata, response, err, made, calls>>

Next ==
    \/ Tick
    \/ GetCatVideos
    \/ \E r \in Reqs :
        \/ MulterRefuses(r)
        \/ MulterStores(r)
        \/ MulterPasses(r)
        \/ HandlerBothOrNeither(r)
        \/ HandlerBadUrl(r)
        \/ HandlerNoCookies(r)
        \/ HandlerRemote(r)
        \/ HandlerUpload(r)
        \/ YtdlFails(r)
        \/ YtdlNoFile(r)
        \/ YtdlDone(r)
        \/ FfprobeUploadFails(r)
        \/ FfprobeUploadDone(r)
        \/ FfmpegError(r)
        \/ FfmpegEnd(r)
        \/ FfmpegEndUnlinkThrows(r)
        \/ FfprobeFinalFails(r)
        \/ FfprobeFinalDone(r)
        \/ Cleanup(r)
        \/ Commit(r)


Spec == Init /\ [][Next]_vars

\* ------------------------------------------------------- the blog routes
\* req.body of a blog POST
BlogBodies == {"p", "q", "r"}

\* newPost, lines 99-103 and 34-38.  by is not a field of the record: it
\* names the request that built it.
NewBlogPost(b, body, now) ==
    [id |-> toString(now), body |-> body, createdAt |-> now, by |-> b]

\* A write of the new post alone, without the list that was read.
BlogPushOnly(ps, newPost) == <<newPost>>

\* posts.push(newPost), lines 104 and 39
BlogPush(ps, newPost) == Append(ps, newPost)

\* The handler of blog request b has run.
Handled(b) == \E i \in DOMAIN served : served[i] = b

InitBlog == InitRoute /\ blogExists \in BOOLEAN /\ trial = NoTrial

\* POST /posts, lines 96-107: one synchronous handler, from
\* ensureBlogFileExists to res.status(201), with no await in it.
PostPosts(b) ==
    /\ ~Handled(b)
    /\ \E body \in BlogBodies : blog' = BlogPush(blog, NewBlogPost(b, body, clock))
    /\ blogExists' = TRUE
    /\ served' = Append(served, b)
    /\ UNCHANGED <<clock, catsExists, cats, files, partial, pc, req, posts, tempName,
                   mainFile, tempFilesToCleanup, finalFilename, metadata, response,
                   err, made, calls, listed, aborted, trial>>

\* POST /api/posts, lines 31-42: the same handler on the same file.
PostApiPosts(b) ==
    /\ ~Handled(b)
    /\ \E body \in BlogBodies : blog' = BlogPush(blog, NewBlogPost(b, body, clock))
    /\ blogExists' = TRUE
    /\ served' = Append(served, b)
    /\ UNCHANGED <<clock, catsExists, cats, files, partial, pc, req, posts, tempName,
                   mainFile, tempFilesToCleanup, finalFilename, metadata, response,
                   err, made, calls, listed, aborted, trial>>

\* GET /posts and GET /api/posts, lines 90-94 and 25-29: the file is
\* created when absent; the list is returned as read.
GetPosts ==
    /\ blogExists' = TRUE
    /\ UNCHANGED <<clock, catsExists, cats, files, partial, pc, req, posts, tempName,
                   mainFile, tempFilesToCleanup, finalFilename, metadata, response,
                   err, made, calls, listed, aborted, blog, served, trial>>

NextBlog ==
    \/ Tick
    \/ GetPosts
    \/ \E b \in Reqs :
        \/ PostPosts(b)
        \/ PostApiPosts(b)

SpecBlog == InitBlog /\ [][NextBlog]_vars

\* ------------------------------------------- clients that go away early
\* The client closes the connection while the handler waits for a
\* subprocess.  The handler registers no 'close' or 'aborted' listener and
\* never looks at req.destroyed, so nothing of its state changes.
Abort(r) ==
    /\ pc[r] \in {"ytdl", "ffprobe1", "ffmpeg", "ffprobe2", "cleaning", "commit"}
    /\ r \notin aborted
    /\ aborted' = aborted \cup {r}
    /\ UNCHANGED <<clock, catsExists, cats, files, partial, pc, req, posts, tempName,
                   mainFile, tempFilesToCleanup, finalFilename, metadata, response,
                   err, made, calls, listed, blogExists, blog, served, trial>>

NextAbort ==
    \/ Next
    \/ \E r \in Reqs : Abort(r)

SpecAbort == Init /\ [][NextAbort]_vars

\* ------------------------------------------ requests one after another
\* No other request is between its arrival and its end.
Alone(r) == \A q \in Reqs \ {r} : pc[q] \in {"idle", "done", "rejected"}

\* The same handlers when a client sends its request only after the one
\* before has ended.  The 'end' listener always finds its source then (no
\* other run can have unlinked it), so its throwing branch is left out.
NextSeq ==
    \/ Tick
    \/ GetCatVideos
    \/ \E r \in Reqs :
        \/ Alone(r) /\ MulterRefuses(r)
        \/ Alone(r) /\ MulterStores(r)
        \/ Alone(r) /\ MulterPasses(r)
        \/ HandlerBothOrNeither(r)
        \/ HandlerBadUrl(r)
        \/ HandlerNoCookies(r)
        \/ HandlerRemote(r)
        \/ HandlerUpload(r)
        \/ YtdlFails(r)
        \/ YtdlNoFile(r)
        \/ YtdlDone(r)
        \/ FfprobeUploadFails(r)
        \/ FfprobeUploadDone(r)
        \/ FfmpegError(r)
        \/ FfmpegEnd(r)
        \/ FfprobeFinalFails(r)
        \/ FfprobeFinalDone(r)
        \/ Cleanup(r)
        \/ Commit(r)

SpecSeq == Init /\ [][NextSeq]_vars

\* ------------------------------------------- the title of one new record
\* The inputs of lines 289-300 as one run of the handler can bring them
\* there: the body's customTitle, the probed tag title, the body's
\* youtubeUrl with the final name its path builds, and Date.now() no
\* earlier than the moment the final name was built.
TitleTexts == CustomTitles \cup TagTitles

TitleSources ==
    {[youtubeUrl |-> "shorts", final |-> YtFinalFilename(ts), ts |-> ts] :
        ts \in 0..MaxClock}
    \cup
    {[youtubeUrl |-> "", final |-> UploadFinalFilename(UploadFilename(ts, rnd, ext)),
      ts |-> ts] : ts \in 0..MaxClock, rnd \in 0..MaxRand, ext \in UploadExts}

TitleTrials ==
    {[fn |-> "autoTitle", done |-> FALSE, customTitle |-> c, tagTitle |-> t,
      youtubeUrl |-> s.youtubeUrl, final |-> s.final, now |-> now,
      name |-> Title("", 0, NoName)] :
        c \in TitleTexts, t \in TitleTexts,
        s \in TitleSources, now \in 0..MaxClock}

InitTitle ==
    /\ InitRoute
    /\ blogExists = FALSE
    /\ trial \in {t \in TitleTrials : t.now >= t.final.ts}

\* Lines 289-300 build the record; its name is kept.
ApplyAutoTitle ==
    /\ ~trial.done
    /\ trial' = [trial EXCEPT
                    !.done = TRUE,
                    !.name = NewPost(1, trial.customTitle, trial.tagTitle,
                                     trial.youtubeUrl, trial.now, trial.final).name]
    /\ UNCHANGED <<clock, catsExists, cats, files, partial, pc, req, posts, tempName,
                   mainFile, tempFilesToCleanup, finalFilename, metadata, response,
                   err, made, calls, listed, aborted, blogExists, blog, served>>

NextTitle == ApplyAutoTitle

SpecTitle == InitTitle /\ [][NextTitle]_vars

\* ------------------------------------------ the main file of a download
\* What yt-dlp and its merger can leave under one temp prefix: muxed or
\* merged containers and unmerged streams.
SelectExts == {".mp4", ".mkv", ".webm", ".m4a"}

\* fs.readdirSync(VIDEOS_DIR) filtered by the prefix (lines 211-212), for
\* a set of files under the prefix: the listing the handler is given, and
\* another order in which the directory could have listed the same files.
SelectTrials ==
    UNION {
        {[fn |-> "mainFile", done |-> FALSE, listing |-> l, again |-> m,
          main |-> NoName, temp |-> {}, mainAgain |-> NoName] :
            l \in Listings(S), m \in Listings(S)} :
        S \in {{FileName("yt_temp_", ts, 0, e) : e \in exts} :
                    ts \in 0..MaxClock, exts \in (SUBSET SelectExts) \ {{}}}}

InitSelect ==
    /\ InitRoute
    /\ blogExists = FALSE
    /\ trial \in SelectTrials

\* Lines 217-222 on the listing, and line 217 on the other order.
ApplySelect ==
    /\ ~trial.done
    /\ trial' = [trial EXCEPT
                    !.done = TRUE,
                    !.main = MainFileOf(trial.listing),
                    !.temp = TempFilesOf(trial.listing, MainFileOf(trial.listing)),
                    !.mainAgain = MainFileOf(trial.again)]
    /\ UNCHANGED <<clock, catsExists, cats, files, partial, pc, req, posts, tempName,
                   mainFile, tempFilesToCleanup, finalFilename, metadata, response,
                   err, made, calls, listed, aborted, blogExists, blog, served>>

NextSelect == ApplySelect

SpecSelect == InitSelect /\ [][NextSelect]_vars

\* ------------------------------------------------------------ the claims
Ended(r) == pc[r] \in {"done", "rejected"}

InFlight(r) == pc[r] \notin {"idle", "done", "rejected", "hung"}

RecordsBy(list, r) == {i \in DOMAIN list : list[i].by = r}

PipelineFailed(r) == err[r] \in {"download", "transcode", "probe"}

Answered201(r) == response[r] # "201" /\ response'[r] = "201"

\* C1: when every request that arrived has completed with 201, the catalog
\* holds one record for each of them: no record is lost to another
\* request's read-modify-write of cats.json.
C1_NoLostUpdate ==
    (\A r \in Reqs : pc[r] = "idle" \/ response[r] = "201")
        => Len(cats) = Cardinality({r \in Reqs : response[r] = "201"})

\* C2: the catalog is append-only: every step leaves the persisted list a
\* prefix of the list persisted after it.
C2_AppendOnly == [][IsPrefix(cats, cats')]_vars

\* C3: a request whose download, probe or transcode failed has, once its
\* handler has ended, received the terminal response 500 with error and
\* details.
C3_TerminalResponse ==
    \A r \in Reqs : (Ended(r) /\ PipelineFailed(r)) => response[r] = "500"

\* C4: once the handler of a failed pipeline run has ended, no file that
\* run wrote is left in the videos directory.
C4_FailedRunLeavesNoFile ==
    \A r \in Reqs : (Ended(r) /\ PipelineFailed(r)) => made[r] \cap files = {}

\* C5: the catalog never contains a record built by a run that failed at
\* any stage.
C5_FailedRunHasNoRecord ==
    \A r \in Reqs : err[r] # "none" => RecordsBy(cats, r) = {}

\* C5 witness: a run that failed at the probe after its transcode, beside a
\* catalog that another run has written.
C5_Witness ==
    \E r \in Reqs : err[r] = "probe" /\ calls[r].ffmpeg = 1 /\ Len(cats) > 0

\* C6: the catalog write of a request answered 201 leaves exactly one
\* record of that request in the catalog, and the file its url names is in
\* the videos directory when the write returns.
C6_AcceptedRecordHasFile ==
    [][\A r \in Reqs : Answered201(r) =>
            /\ Cardinality(RecordsBy(cats', r)) = 1
            /\ \A i \in RecordsBy(cats', r) : cats'[i].url \in files']_vars

\* C6 witness: a request was answered 201 with its record in the catalog
\* while another request's transcoder is running.
C6_Witness ==
    \E r, q \in Reqs :
        /\ response[r] = "201" /\ RecordsBy(cats, r) # {}
        /\ pc[q] = "ffmpeg"

\* C7: when a record is written, the file its url names is not half-written
\* and no transcoder in flight, of any request, is writing it.
C7_NoPartialArtifactCommitted ==
    [][\A r \in Reqs : Answered201(r) =>
            /\ finalFilename[r] \notin partial
            /\ \A q \in Reqs \ {r} :
                    ~(pc[q] = "ffmpeg" /\ finalFilename[q] = finalFilename[r])]_vars

\* C8: the records of the catalog have pairwise distinct ids.
C8_DistinctIds ==
    \A i, j \in DOMAIN cats : i # j => cats[i].id # cats[j].id

\* C9: two requests in flight together have different temp-name prefixes
\* and different final file names.
C9_DistinctGeneratedNames ==
    \A r, q \in Reqs : (r # q /\ InFlight(r) /\ InFlight(q)) =>
        /\ (tempName[r] # NoName /\ tempName[q] # NoName) => tempName[r] # tempName[q]
        /\ (finalFilename[r] # NoName /\ finalFilename[q] # NoName)
                => finalFilename[r] # finalFilename[q]

\* C10: the 400 answer to a request with both a file and a URL, or with
\* neither, comes with no side effect: the catalog's records are as they
\* were, no file of the request is in the videos directory, and the request
\* invoked no downloader, encoder or prober.
C10_RejectionHasNoSideEffect ==
    [][\A r \in Reqs :
            (pc[r] = "handler" /\ response'[r] = "400" /\ BothOrNeither(req[r])) =>
                /\ cats' = cats
                /\ made[r] \cap files' = {}
                /\ calls'[r] = [ytdl |-> 0, ffmpeg |-> 0, ffprobe |-> 0]]_vars

\* C11: the name of a new record is the caller's title when one is given;
\* else the probed format tag title when there is one; else a name that is
\* not empty: "YouTube Short " and the time of the commit for a download,
\* the final file name without its extension for an upload.
C11_TitlePrecedence ==
    trial.done =>
        LET n == trial.name IN
        /\ trial.customTitle # "" => n.text = trial.customTitle /\ n.file = NoName
        /\ (trial.customTitle = "" /\ trial.tagTitle # "") =>
                n.text = trial.tagTitle /\ n.file = NoName
        /\ (trial.customTitle = "" /\ trial.tagTitle = "") =>
                /\ n.text # "" \/ n.file # NoName
                /\ trial.youtubeUrl # "" =>
                        n.text = "YouTube Short " /\ n.ts = trial.now
                /\ trial.youtubeUrl = "" =>
                        /\ n.text = ""
                        /\ n.file.k = trial.final.k
                        /\ n.file.ts = trial.final.ts
                        /\ n.file.rnd = trial.final.rnd
                        /\ n.file.ext = "_h264"

\* A caller's title and a different tag title were both there.
C11_Witness ==
    /\ trial.done
    /\ trial.customTitle = "A"
    /\ trial.tagTitle = "B"
    /\ trial.name.text = "A"

\* C12: when the ingestions run one after another on a catalog that is
\* absent or empty, every answer of GET /cat-videos is exactly the records
\* of the ingestions answered 201 so far, one each, in the order they ran
\* (requests are numbered in arrival order); an absent catalog file is
\* created, as the empty list, by the first call that needs it.
C12_SequentialRoundTrip ==
    [][listed' # listed =>
        LET body == listed'.body
            ok == {r \in Reqs : response[r] = "201"}
        IN  /\ catsExists'
            /\ Len(body) = Cardinality(ok)
            /\ \A r \in ok : Cardinality(RecordsBy(body, r)) = 1
            /\ \A i, j \in DOMAIN body : i < j => body[i].by < body[j].by]_vars

\* GET /cat-videos answered with one record for each request.
C12_Witness ==
    /\ listed.answered
    /\ Len(listed.body) = NumReqs
    /\ \A r \in Reqs : response[r] = "201"

\* C13: a request whose client went away while its pipeline was in flight
\* ends on the failure path: no record of it is ever in the catalog, it is
\* not answered 201, and once it has ended no file it wrote is left.
C13_AbortedRunNotCommitted ==
    \A r \in aborted :
        /\ RecordsBy(cats, r) = {}
        /\ response[r] # "201"
        /\ Ended(r) => made[r] \cap files = {}

\* C14: the source a request's transcoder reads is there until that
\* transcoder has reported success; when the request is answered 201 the
\* source is gone; and a transcoder error leaves the source where it was.
C14_SourceDeletedOnlyAfterSuccess ==
    [][\A r \in Reqs :
            /\ (pc'[r] \in {"ffprobe1", "ffmpeg"} /\ mainFile'[r] # NoName)
                    => mainFile'[r] \in files'
            /\ Answered201(r) => mainFile[r] \notin files
            /\ (pc[r] = "ffmpeg" /\ err'[r] = "transcode" /\ mainFile[r] \in files)
                    => mainFile[r] \in files']_vars

\* C15: a request answered 201 has invoked the transcoder exactly once,
\* and the url of its record names the file that transcoder wrote, whose
\* name ends in _h264.mp4, not the source the transcoder read.
C15_AlwaysNormalized ==
    [][\A r \in Reqs : Answered201(r) =>
            /\ calls[r].ffmpeg = 1
            /\ RecordsBy(cats', r) # {}
            /\ \A i \in RecordsBy(cats', r) :
                    /\ cats'[i].url.ext = "_h264.mp4"
                    /\ cats'[i].url = finalFilename[r]
                    /\ cats'[i].url \in made[r]
                    /\ cats'[i].url # mainFile[r]]_vars

\* An upload and a download have both been answered 201.
C15_Witness ==
    \E r, q \in Reqs :
        /\ response[r] = "201" /\ req[r].file = "video" /\ calls[r].ffmpeg = 1
        /\ response[q] = "201" /\ req[q].youtubeUrl = "shorts" /\ calls[q].ffmpeg = 1

\* C16: for every non-empty set of files under the temp prefix and every
\* order in which the directory lists them: when one of them is an .mp4
\* the main file is an .mp4; when none is, the main file is the same
\* whatever the order of the listing; and the temp artifacts are exactly
\* the listed files other than the main one.
C16_MainFileSelection ==
    trial.done =>
        LET set == {trial.listing[i] : i \in 1..Len(trial.listing)}
            hasMp4 == \E f \in set : f.ext = ".mp4"
        IN  /\ hasMp4 => trial.main.ext = ".mp4"
            /\ ~hasMp4 => trial.main = trial.mainAgain
            /\ trial.main \in set
            /\ trial.temp = set \ {trial.main}

\* C17: the main file a download request has selected, and the temp
\* artifacts it is going to delete, are files that request's own download
\* wrote, and none of them is a file another request's download wrote.
C17_OwnFilesOnly ==
    \A r \in Reqs : (req[r].file = "none" /\ req[r].youtubeUrl # "") =>
        LET mine == ({mainFile[r]} \ {NoName}) \cup tempFilesToCleanup[r] IN
        /\ mine \subseteq made[r]
        /\ \A q \in Reqs \ {r} : mine \cap made[q] = {}

\* C18: on both paths the request has probed its source before its
\* transcoder is invoked, the probe that fills the record's metadata has
\* returned before cleaning, and cleaning is over before the record is
\* written: a request enters "ffmpeg" with a probe already invoked, and is
\* answered 201 only from "commit", which it enters only from "cleaning".
C18_PipelineOrder ==
    [][\A r \in Reqs :
            /\ (pc[r] # "ffmpeg" /\ pc'[r] = "ffmpeg") => calls'[r].ffprobe >= 1
            /\ (pc[r] # "commit" /\ pc'[r] = "commit") => pc[r] = "cleaning"
            /\ Answered201(r) => pc[r] = "commit"]_vars

\* C19: whichever of a request's temp artifacts cannot be deleted, the
\* request leaves Cleaning for the commit with no error recorded, and the
\* commit writes exactly one record of it and answers 201.
C19_CleanupFailureIsHarmless ==
    [][\A r \in Reqs :
            /\ (pc[r] = "cleaning" /\ pc'[r] # "cleaning") =>
                    pc'[r] = "commit" /\ err'[r] = "none"
            /\ (pc[r] = "commit" /\ pc'[r] # "commit") =>
                    /\ response'[r] = "201"
                    /\ Cardinality(RecordsBy(cats', r)) = 1]_vars

\* The only request there was is answered 201 and has its record, and a
\* temp artifact of its download, which it could not delete, is still there.
C19_Witness ==
    \E r \in Reqs :
        /\ \A q \in Reqs \ {r} : pc[q] = "idle"
        /\ response[r] = "201"
        /\ Cardinality(RecordsBy(cats, r)) = 1
        /\ \E f \in made[r] \cap files : f.k = "yt_temp_"

\* C20: whatever the order in which the handlers of the blog POSTs sent
\* together run, the blog file holds one record for each handler that has
\* run, in the order the handlers ran.
C20_BlogAppendInHandlerOrder ==
    /\ Len(blog) = Len(served)
    /\ \A i \in DOMAIN blog : blog[i].by = served[i]

\* Every blog POST has been handled, the last-numbered request first.
C20_Witness ==
    /\ Len(served) = NumReqs
    /\ Len(blog) = NumReqs
    /\ served[1] = NumReqs
====
